---- MODULE Spec2Model ----
(***************************************************************************)
(* Ability Execution Engine of the abilities plugin:                       *)
(*   - executor/index.ts            buildExecutionOrder, executeScriptStep, *)
(*                                  executeAbility                          *)
(*   - executor/execution-manager   ExecutionManager (single active slot)   *)
(*   - validator/index.ts           validateInputs                          *)
(*   - plugin.ts / opencode-plugin  tool.execute.before, session.deleted    *)
(*                                                                          *)
(* The host runtime is a single-threaded event loop: an action below is the *)
(* code that runs between two suspension points (await).                    *)
(***************************************************************************)
EXTENDS Integers, Sequences, FiniteSets, TLC

\* ------------------------------------------------------------------ bounds
MaxExecs == 2     \* number of ExecutionManager.execute calls in one run
MaxSteps == 3     \* steps of a definition handed to the Resolver
MaxNeeds == 2     \* size of one step's needs list handed to the Resolver
MaxRuns == 1      \* number of executeAbility calls in one run of the script tests and of the injector

\* ------------------------------------------------------------- data model
StepIds == <<"a", "b", "c", "d", "e">>
MissingId == "z"

\* A text is a sequence of tokens: literal pieces and the placeholders
\* {{inputs.NAME}} and {{steps.STEPID.output}}.
Lit(text) == [kind |-> "lit", name |-> text]
InputRef(name) == [kind |-> "inputs", name |-> name]
StepRef(id) == [kind |-> "steps", name |-> id]

\* An optional value is a set with at most one element ({} is undefined).
\* a step as the schema admits it: run is defined for script steps only
AnyStep(id, type, needs, exit_code, on_failure, when, run) ==
    [id |-> id, type |-> type, needs |-> needs, exit_code |-> exit_code,
     on_failure |-> on_failure, when |-> when, run |-> run]

\* a script step with its command
ScriptStep(id, needs, exit_code, run) ==
    AnyStep(id, "script", needs, exit_code, {}, {}, {run})

\* a script step with its failure policy and its condition
PolicyStep(id, needs, exit_code, on_failure, when) ==
    AnyStep(id, "script", needs, exit_code, on_failure, when, {<<Lit("./step.sh")>>})

\* a script step that declares neither on_failure nor when
Step(id, needs, exit_code) == PolicyStep(id, needs, exit_code, {}, {})

\* null for AbilityExecution.currentStep
NullStep ==
    [id |-> "", type |-> "", needs |-> {}, exit_code |-> {},
     on_failure |-> {}, when |-> {}, run |-> {}]

\* the condition inputs.<input> == "<equals>"
WhenEquals(input, equals) == [input |-> input, equals |-> equals]

\* an input value carries its JavaScript typeof
Undef == [t |-> "undefined", v |-> ""]
StrWorld == [t |-> "string", v |-> "World"]
Num42 == [t |-> "number", v |-> "42"]

InputNames == {"name"}

InputDefinition(name, type, required, default) ==
    [name |-> name, type |-> type, required |-> required, default |-> default]

\* the definitions handed to the engine
Abilities ==
    { [name |-> "chain", inputs |-> <<>>,
       steps |-> << Step("c", {"b"}, {}), Step("a", {}, {0}), Step("b", {"a"}, {0}) >>],
      [name |-> "cyclic", inputs |-> <<>>,
       steps |-> << Step("a", {}, {}), Step("b", {"c"}, {}), Step("c", {"b"}, {}) >>],
      [name |-> "dangling", inputs |-> <<>>,
       steps |-> << Step("a", {MissingId}, {}), Step("b", {}, {}) >>],
      [name |-> "greet",
       inputs |-> << InputDefinition("name", "string", TRUE, Undef) >>,
       steps |-> << Step("a", {}, {}) >>] }

\* the definitions of the on_failure and when tests
TestAbilities ==
    { [name |-> "continue", inputs |-> <<>>,
       steps |-> << PolicyStep("a", {}, {0}, {"continue"}, {}),
                    Step("b", {}, {}) >>],
      [name |-> "conditional",
       inputs |-> << InputDefinition("name", "string", TRUE, Undef) >>,
       steps |-> << Step("a", {}, {}),
                    PolicyStep("b", {}, {}, {}, {WhenEquals("name", "production")}),
                    Step("c", {"b"}, {}) >>] }

StrYes == [t |-> "string", v |-> "yes"]

\* the definitions of the interpolation, context passing and error handling
\* tests, one with a hyphenated input name, one with an agent step, one with
\* a step id used twice and one with a cycle
ScriptAbilities ==
    { [name |-> "interpolate",
       inputs |-> << InputDefinition("name", "string", TRUE, Undef) >>,
       steps |-> << ScriptStep("a", {}, {},
                       <<Lit("echo"), Lit("Hello "), InputRef("name")>>) >>],
      [name |-> "defaults",
       inputs |-> << InputDefinition("name", "string", FALSE, StrWorld) >>,
       steps |-> << ScriptStep("a", {}, {0},
                       <<Lit("echo"), InputRef("name"), InputRef("env")>>) >>],
      [name |-> "flags",
       inputs |-> << InputDefinition("dry-run", "string", TRUE, Undef) >>,
       steps |-> << ScriptStep("a", {}, {0},
                       <<Lit("./deploy.sh"), InputRef("dry-run")>>) >>],
      [name |-> "context-test", inputs |-> <<>>,
       steps |-> << ScriptStep("a", {}, {}, <<Lit("echo"), Lit("GENERATED_VALUE_123")>>),
                    ScriptStep("b", {"a"}, {},
                       <<Lit("echo"), Lit("Received: "), StepRef("a")>>) >>],
      [name |-> "missing-cmd-test", inputs |-> <<>>,
       steps |-> << ScriptStep("a", {}, {}, <<Lit("nonexistent_command_12345")>>) >>],
      [name |-> "review", inputs |-> <<>>,
       steps |-> << ScriptStep("a", {}, {}, <<Lit("echo"), Lit("diff")>>),
                    AnyStep("b", "agent", {"a"}, {}, {}, {}, {}) >>],
      [name |-> "twice", inputs |-> <<>>,
       steps |-> << ScriptStep("a", {}, {}, <<Lit("echo"), Lit("twice")>>),
                    ScriptStep("a", {}, {}, <<Lit("echo"), Lit("twice")>>) >>],
      [name |-> "loop", inputs |-> <<>>,
       steps |-> << ScriptStep("a", {}, {}, <<Lit("echo"), Lit("a")>>),
                    ScriptStep("b", {"c"}, {}, <<Lit("echo"), Lit("b")>>),
                    ScriptStep("c", {"b"}, {}, <<Lit("echo"), Lit("c")>>) >>] }

\* the input values the script tests supply
ScriptInputChoices(ability) ==
    IF Len(ability.inputs) = 0
    THEN { [n \in {"name", "dry-run"} |-> Undef] }
    ELSE { [n \in {"name", "dry-run"} |-> Undef],
           [n \in {"name", "dry-run"} |-> IF n = "name" THEN StrWorld ELSE Undef],
           [n \in {"name", "dry-run"} |-> IF n = "name" THEN Undef ELSE StrYes] }

NoInputs == [n \in InputNames |-> Undef]

\* the input values a caller supplies
InputChoices(ability) ==
    IF Len(ability.inputs) = 0
    THEN {NoInputs}
    ELSE {NoInputs, [n \in InputNames |-> StrWorld], [n \in InputNames |-> Num42]}

\* exit codes a subprocess ends with (a spawn error resolves with code 1)
ExitCodes == {0, 1}

Tools == {"read", "bash", "webfetch"}

Enforcements == {"strict", "normal", "loose"}

\* ------------------------------------------------------------------ errors
NoError == [msg |-> "", actual |-> 0, expected |-> 0, codes |-> <<>>]

ExitCodeError(actual, expected) ==
    [msg |-> "Exit code", actual |-> actual, expected |-> expected, codes |-> <<>>]

InputValidationError(errs) ==
    [msg |-> "Input validation failed", actual |-> 0, expected |-> 0, codes |-> errs]

CancelledError == [msg |-> "Cancelled by user", actual |-> 0, expected |-> 0, codes |-> <<>>]

\* ------------------------------------------------------------- seq helpers
Remove(s, i) == [k \in 1..(Len(s) - 1) |-> IF k < i THEN s[k] ELSE s[k + 1]]

Ids(steps) == [k \in 1..Len(steps) |-> steps[k].id]

Range(s) == {s[k] : k \in 1..Len(s)}

\* ---------------------------------------------------------------- Resolver
\* mutant of Eligible: the needs of a step are not looked at
EligibleIgnoringNeeds(step, completed) == TRUE

\* the predicate of remaining.find(...) in buildExecutionOrder
Eligible(step, completed) ==
    IF step.needs = {} THEN TRUE
    ELSE \A dep \in step.needs : dep \in completed

\* mutant of FindNext: the last eligible step is taken, not the first
FindNextLast(remaining, completed) ==
    LET elig == {i \in 1..Len(remaining) : Eligible(remaining[i], completed)}
    IN  IF elig = {} THEN 0 ELSE CHOOSE i \in elig : \A j \in elig : i >= j

\* remaining.find(...): index of the first eligible step, 0 when find
\* returns undefined
FindNext(remaining, completed) ==
    LET elig == {i \in 1..Len(remaining) : Eligible(remaining[i], completed)}
    IN  IF elig = {} THEN 0 ELSE CHOOSE i \in elig : \A j \in elig : i <= j

\* remaining.splice(remaining.indexOf(next), 1): indexOf finds the first
\* element identical to next, which is the element find returned
Splice(remaining, next) == Remove(remaining, next)

RECURSIVE ResolveLoop(_, _, _)
\* the while loop of buildExecutionOrder
ResolveLoop(result, completed, remaining) ==
    IF Len(remaining) = 0 THEN result
    ELSE LET next == FindNext(remaining, completed)
         IN  IF next = 0 THEN result
             ELSE ResolveLoop(Append(result, remaining[next]),
                              completed \cup {remaining[next].id},
                              Splice(remaining, next))

buildExecutionOrder(steps) == ResolveLoop(<<>>, {}, steps)

\* --------------------------------------------------------------- Validator
\* mutant of InputErrorsOf: a declared default does not excuse a required
\* input
InputErrorsOfIgnoringDefault(definition, value) ==
    IF definition.required /\ value = Undef
    THEN <<"MISSING_INPUT">>
    ELSE IF value = Undef THEN <<>>
    ELSE IF value.t # definition.type THEN <<"TYPE_MISMATCH">>
    ELSE <<>>

\* one declared input of validateInputs: the error codes it pushes
InputErrorsOf(definition, value) ==
    IF definition.required /\ value = Undef /\ definition.default = Undef
    THEN <<"MISSING_INPUT">>
    ELSE IF value = Undef THEN <<>>
    ELSE IF value.t # definition.type THEN <<"TYPE_MISMATCH">>
    ELSE <<>>

RECURSIVE ValidateFrom(_, _, _)
ValidateFrom(defs, inputs, i) ==
    IF i > Len(defs) THEN <<>>
    ELSE InputErrorsOf(defs[i], inputs[defs[i].name]) \o ValidateFrom(defs, inputs, i + 1)

validateInputs(ability, inputs) == ValidateFrom(ability.inputs, inputs, 1)

\* step.needs in iteration order (the ids of StepIds first, in that order)
NeedsSeq(needs) ==
    SelectSeq(StepIds \o <<MissingId>>, LAMBDA id : id \in needs)

\* steps.find((s) => s.id === stepId)?.needs
NeedsOfFirst(steps, stepId) ==
    LET at == {k \in 1..Len(steps) : steps[k].id = stepId}
    IN  IF at = {} THEN <<>>
        ELSE NeedsSeq(steps[CHOOSE k \in at : \A j \in at : k <= j].needs)

\* path.indexOf(stepId)
IndexOf(path, stepId) ==
    CHOOSE k \in 1..Len(path) :
        path[k] = stepId /\ \A j \in 1..(k - 1) : path[j] # stepId

RECURSIVE dfs(_, _, _, _)
RECURSIVE DfsDeps(_, _, _, _)
\* dfs of detectCircularDependencies: the cycle found (<<>> is null) and the
\* visited set it leaves; recursionStack holds the ids of path
dfs(steps, stepId, visited, path) ==
    IF stepId \in Range(path)
    THEN [cycle |-> Append(SubSeq(path, IndexOf(path, stepId), Len(path)), stepId),
          visited |-> visited]
    ELSE IF stepId \in visited
    THEN [cycle |-> <<>>, visited |-> visited]
    ELSE DfsDeps(steps, NeedsOfFirst(steps, stepId),
                 visited \cup {stepId}, Append(path, stepId))

\* the loop over step.needs inside dfs
DfsDeps(steps, deps, visited, path) ==
    IF Len(deps) = 0 THEN [cycle |-> <<>>, visited |-> visited]
    ELSE LET r == dfs(steps, Head(deps), visited, path)
         IN  IF Len(r.cycle) > 0 THEN r
             ELSE DfsDeps(steps, Tail(deps), r.visited, path)

RECURSIVE DetectFrom(_, _, _)
\* the loop over steps at the end of detectCircularDependencies
DetectFrom(steps, i, visited) ==
    IF i > Len(steps) THEN <<>>
    ELSE LET r == dfs(steps, steps[i].id, visited, <<>>)
         IN  IF Len(r.cycle) > 0 THEN r.cycle
             ELSE DetectFrom(steps, i + 1, r.visited)

\* mutant of detectCircularDependencies: only a step that needs itself is
\* reported
detectSelfDependencies(steps) ==
    LET self == {k \in 1..Len(steps) : steps[k].id \in steps[k].needs}
    IN  IF self = {} THEN <<>>
        ELSE LET k == CHOOSE i \in self : \A j \in self : i <= j
             IN  <<steps[k].id, steps[k].id>>

detectCircularDependencies(steps) == DetectFrom(steps, 1, {})

RECURSIVE MissingFrom(_, _)
\* the first loop of validateDependencies: one error for each needs entry
\* that names no step
MissingFrom(steps, i) ==
    IF i > Len(steps) THEN <<>>
    ELSE [k \in 1..Cardinality(steps[i].needs \ Range(Ids(steps))) |-> "MISSING_DEPENDENCY"]
            \o MissingFrom(steps, i + 1)

validateDependencies(steps) ==
    MissingFrom(steps, 1)
        \o (IF Len(detectCircularDependencies(steps)) > 0
            THEN <<"CIRCULAR_DEPENDENCY">> ELSE <<>>)

\* one DUPLICATE_ID for each step whose id an earlier step has
validateUniqueIds(steps) ==
    LET again == {k \in 1..Len(steps) : \E j \in 1..(k - 1) : steps[j].id = steps[k].id}
    IN  [k \in 1..Cardinality(again) |-> "DUPLICATE_ID"]

\* the patterns new RegExp(pattern) throws on
InvalidPatterns == {"("}

\* the issues AbilitySchema.safeParse reports: description.min(1) and
\* steps.min(1); every other field of data is well-formed
SchemaErrors(data) ==
    (IF data.description = "" THEN <<"SCHEMA_ERROR">> ELSE <<>>)
        \o (IF Len(data.steps) = 0 THEN <<"SCHEMA_ERROR">> ELSE <<>>)

\* the INVALID_REGEX error of each trigger pattern that does not compile
PatternErrors(patterns) ==
    [k \in 1..Len(SelectSeq(patterns, LAMBDA pt : pt \in InvalidPatterns)) |-> "INVALID_REGEX"]

\* validateAbility: valid and the codes of errors (inputs declare no pattern)
validateAbility(data) ==
    IF Len(SchemaErrors(data)) > 0
    THEN [valid |-> FALSE, errors |-> SchemaErrors(data)]
    ELSE LET errors == validateUniqueIds(data.steps)
                          \o validateDependencies(data.steps)
                          \o PatternErrors(data.patterns)
         IN  [valid |-> Len(errors) = 0, errors |-> errors]

\* ---------------------------------------------------------------- Executor
\* "Apply defaults" in executeAbility
ResolvedInputs(ability, inputs) ==
    [n \in DOMAIN inputs |->
        LET ds == {k \in 1..Len(ability.inputs) : ability.inputs[k].name = n}
        IN  IF inputs[n] = Undef /\ ds # {}
                /\ ability.inputs[CHOOSE k \in ds : TRUE].default # Undef
            THEN ability.inputs[CHOOSE k \in ds : TRUE].default
            ELSE inputs[n]]

\* the names the pattern \w+ of interpolateVariables matches
WordNames == {"name", "env", "version"}

\* String(value)
String(value) == value.v

\* interpolateVariables: every {{inputs.NAME}} match whose inputs[NAME] is
\* not undefined becomes the text of the value; all else stays as it is
interpolateVariables(text, inputs) ==
    [k \in 1..Len(text) |->
        IF /\ text[k].kind = "inputs"
           /\ text[k].name \in WordNames
           /\ text[k].name \in DOMAIN inputs
           /\ inputs[text[k].name] # Undef
        THEN Lit(String(inputs[text[k].name]))
        ELSE text[k]]

\* how the subprocess of runScript ends: the close event with the streams
\* and the exit code (code {} is null), or the error event
Closed(stdout, stderr, code) ==
    [event |-> "close", stdout |-> stdout, stderr |-> stderr, code |-> code, message |-> <<>>]
SpawnError(message) ==
    [event |-> "error", stdout |-> <<>>, stderr |-> <<>>, code |-> {}, message |-> message]

\* no subprocess outcome on record
NoOutcome ==
    [event |-> "none", stdout |-> <<>>, stderr |-> <<>>, code |-> {}, message |-> <<>>]

\* what the promise of runScript resolves with
runScript(outcome) ==
    IF outcome.event = "close"
    THEN [stdout |-> outcome.stdout, stderr |-> outcome.stderr,
          exitCode |-> IF outcome.code = {} THEN 1 ELSE CHOOSE c \in outcome.code : TRUE]
    ELSE [stdout |-> outcome.stdout, stderr |-> outcome.message, exitCode |-> 1]

\* the ways sh -c command can end: echo prints its arguments, the deploy
\* script succeeds, fails or is killed by a signal, an unknown command makes
\* sh exit with 127, and sh itself may fail to spawn
Outcomes(command) ==
    (CASE command[1] = Lit("echo") ->
              { Closed(Tail(command), <<>>, {0}) }
       [] command[1] = Lit("./deploy.sh") ->
              { Closed(<<Lit("deployed")>>, <<>>, {0}),
                Closed(<<Lit("log")>>, <<Lit("denied")>>, {1}),
                Closed(<<>>, <<>>, {}) }
       [] OTHER ->
              { Closed(<<>>, <<Lit("sh: "), command[1], Lit(": not found")>>, {127}) })
    \cup { SpawnError(<<Lit("spawn sh ENOENT")>>) }

\* mutant of executeScriptStep: every non-zero exit code fails the step
executeScriptStepStrict(step, execution, outcome) ==
    LET result == runScript(outcome)
        failed == result.exitCode # 0
    IN  [stepId |-> step.id,
         status |-> IF failed THEN "failed" ELSE "completed",
         output |-> IF Len(result.stdout) > 0 THEN result.stdout ELSE result.stderr,
         error |-> IF failed THEN ExitCodeError(result.exitCode, 0) ELSE NoError,
         command |-> interpolateVariables(CHOOSE r \in step.run : TRUE, execution.inputs),
         outcome |-> NoOutcome]

\* executeScriptStep once runScript has resolved; command (the text handed
\* to sh -c) is kept with the result for the record, and outcome is a slot
\* for the record of how the subprocess ended
executeScriptStep(step, execution, outcome) ==
    LET command == interpolateVariables(CHOOSE r \in step.run : TRUE, execution.inputs)
        result == runScript(outcome)
        failed == step.exit_code # {} /\ result.exitCode \notin step.exit_code
    IN  [stepId |-> step.id,
         status |-> IF failed THEN "failed" ELSE "completed",
         output |-> IF Len(result.stdout) > 0 THEN result.stdout ELSE result.stderr,
         error |-> IF failed
                   THEN ExitCodeError(result.exitCode, CHOOSE c \in step.exit_code : TRUE)
                   ELSE NoError,
         command |-> command,
         outcome |-> NoOutcome]

\* the early return of executeAbility on input errors
InputFailure(ability, inputs, errs) ==
    [ability |-> ability, supplied |-> inputs, inputs |-> inputs,
     status |-> "failed", currentStep |-> NullStep, currentStepIndex |-> -1,
     orderedSteps |-> <<>>, completedSteps |-> <<>>, pendingSteps |-> ability.steps,
     started |-> <<>>, completedAt |-> TRUE,
     error |-> InputValidationError(errs), pc |-> "returning"]

\* the execution object built before the step loop
NewExecution(ability, inputs) ==
    LET orderedSteps == buildExecutionOrder(ability.steps)
    IN  [ability |-> ability, supplied |-> inputs,
         inputs |-> ResolvedInputs(ability, inputs),
         status |-> "running", currentStep |-> NullStep, currentStepIndex |-> -1,
         orderedSteps |-> orderedSteps, completedSteps |-> <<>>,
         pendingSteps |-> orderedSteps,
         started |-> <<>>, completedAt |-> FALSE,
         error |-> NoError, pc |-> "loop"]

\* the head of the for loop at index i (0-based): either the next step is
\* started and the engine suspends on it, or the loop is over and the
\* execution is completed
LoopHead(execution, i) ==
    IF i < Len(execution.orderedSteps)
    THEN IF execution.orderedSteps[i + 1].run = {}
         THEN \* step.run is undefined: text.replace throws a TypeError before
              \* the try block of executeScriptStep; executeAbility rejects
              [execution EXCEPT !.currentStep = execution.orderedSteps[i + 1],
                                !.currentStepIndex = i,
                                !.pc = "thrown"]
         ELSE [execution EXCEPT !.currentStep = execution.orderedSteps[i + 1],
                                !.currentStepIndex = i,
                                !.started = Append(@, execution.orderedSteps[i + 1].id),
                                !.pc = "step"]
    ELSE [execution EXCEPT !.status = "completed",
                           !.currentStep = NullStep,
                           !.completedAt = TRUE,
                           !.pc = "returning"]

\* mutant of executeAbility: the input errors do not end the run
executeAbilityUnvalidated(ability, inputs) ==
    LoopHead(NewExecution(ability, inputs), 0)

\* executeAbility from its call to its first suspension point
executeAbility(ability, inputs) ==
    LET inputErrors == validateInputs(ability, inputs)
    IN  IF Len(inputErrors) > 0
        THEN InputFailure(ability, inputs, inputErrors)
        ELSE LoopHead(NewExecution(ability, inputs), 0)

\* mutant of FilterPending: nothing is removed
FilterPendingNothing(pending, id) == pending

\* pendingSteps.filter((s) => s.id !== step.id)
FilterPending(pending, id) == SelectSeq(pending, LAMBDA s : s.id # id)

\* mutant of AfterStep: the loop index advances by two
AfterStepSkipping(execution, result) ==
    LET recorded == [execution EXCEPT
                        !.completedSteps = Append(@, result),
                        !.pendingSteps = FilterPending(@, execution.currentStep.id)]
    IN  IF result.status = "failed"
        THEN [recorded EXCEPT !.status = "failed",
                              !.error = result.error,
                              !.completedAt = TRUE,
                              !.pc = "returning"]
        ELSE LoopHead(recorded, execution.currentStepIndex + 2)

\* mutant of AfterStep: a failed result does not end the loop
AfterStepContinuing(execution, result) ==
    LET recorded == [execution EXCEPT
                        !.completedSteps = Append(@, result),
                        !.pendingSteps = FilterPending(@, execution.currentStep.id)]
    IN  LoopHead(recorded, execution.currentStepIndex + 1)

\* mutant of AfterStep: the failure is written to the execution but the loop
\* goes on to the next step
AfterStepNoReturn(execution, result) ==
    LET recorded == [execution EXCEPT
                        !.completedSteps = Append(@, result),
                        !.pendingSteps = FilterPending(@, execution.currentStep.id)]
    IN  IF result.status = "failed"
        THEN LoopHead([recorded EXCEPT !.status = "failed",
                                       !.error = result.error,
                                       !.completedAt = TRUE],
                      execution.currentStepIndex + 1)
        ELSE LoopHead(recorded, execution.currentStepIndex + 1)

\* the loop body after the awaited step result has arrived
AfterStep(execution, result) ==
    LET recorded == [execution EXCEPT
                        !.completedSteps = Append(@, result),
                        !.pendingSteps = FilterPending(@, execution.currentStep.id)]
    IN  IF result.status = "failed"
        THEN [recorded EXCEPT !.status = "failed",
                              !.error = result.error,
                              !.completedAt = TRUE,
                              !.pc = "returning"]
        ELSE LoopHead(recorded, execution.currentStepIndex + 1)

\* -------------------------------------------------------- Enforcement Gate
ALLOWED_TOOLS_BY_STEP_TYPE(type) ==
    CASE type = "script" -> {}
      [] type = "agent" -> {"task", "background_task", "call_omo_agent"}
      [] type = "skill" -> {"skill", "slashcommand"}
      [] type = "approval" -> {"ability.status", "ability.cancel"}
      [] type = "workflow" -> {"ability.run", "ability.status"}
      [] OTHER -> {}

ALWAYS_ALLOWED_TOOLS ==
    {"ability.list", "ability.status", "ability.cancel", "todoread", "read",
     "glob", "grep", "lsp_hover", "lsp_diagnostics", "lsp_document_symbols"}

\* ALWAYS_ALLOWED_TOOLS of the minimal plugin
MINIMAL_ALWAYS_ALLOWED_TOOLS ==
    {"ability.list", "ability.status", "ability.cancel", "read", "glob", "grep"}

destructiveTools == {"write", "edit", "bash", "task"}

Allow == [denied |-> FALSE, step |-> ""]
Deny(step) == [denied |-> TRUE, step |-> step.id]

\* mutant of handleToolExecuteBefore: ALWAYS_ALLOWED_TOOLS is not consulted
handleToolExecuteBeforeNoAllowList(active, enf, tool) ==
    IF active = {} THEN Allow
    ELSE LET execution == CHOOSE x \in active : TRUE
             currentStep == execution.currentStep
             allowedTools == ALLOWED_TOOLS_BY_STEP_TYPE(currentStep.type)
         IN  IF currentStep = NullStep THEN Allow
             ELSE IF enf = "loose" THEN Allow
             ELSE IF enf = "strict"
                  THEN IF tool \notin allowedTools THEN Deny(currentStep) ELSE Allow
             ELSE IF enf = "normal"
                  THEN IF tool \in destructiveTools /\ tool \notin allowedTools
                       THEN Deny(currentStep) ELSE Allow
             ELSE Allow

\* mutant of handleToolExecuteBefore: loose is enforced as normal
handleToolExecuteBeforeLooseAsNormal(active, enf, tool) ==
    IF active = {} THEN Allow
    ELSE LET execution == CHOOSE x \in active : TRUE
             currentStep == execution.currentStep
             allowedTools == ALLOWED_TOOLS_BY_STEP_TYPE(currentStep.type)
         IN  IF currentStep = NullStep THEN Allow
             ELSE IF tool \in ALWAYS_ALLOWED_TOOLS THEN Allow
             ELSE IF enf = "strict"
                  THEN IF tool \notin allowedTools THEN Deny(currentStep) ELSE Allow
             ELSE IF tool \in destructiveTools /\ tool \notin allowedTools
                  THEN Deny(currentStep)
             ELSE Allow

\* mutant of handleToolExecuteBefore: the early return on a null
\* getActive() is dropped
handleToolExecuteBeforeNoActiveCheck(active, enf, tool) ==
    IF enf = "loose" THEN Allow
    ELSE IF tool \in ALWAYS_ALLOWED_TOOLS THEN Allow
    ELSE IF enf = "strict" THEN Deny(NullStep)
    ELSE IF tool \in destructiveTools THEN Deny(NullStep)
    ELSE Allow

\* AbilitiesPlugin.handleToolExecuteBefore; active is getActive() as a set
\* with at most one execution
handleToolExecuteBefore(active, enf, tool) ==
    IF active = {} THEN Allow
    ELSE LET execution == CHOOSE x \in active : TRUE
             currentStep == execution.currentStep
             allowedTools == ALLOWED_TOOLS_BY_STEP_TYPE(currentStep.type)
         IN  IF currentStep = NullStep THEN Allow
             ELSE IF enf = "loose" THEN Allow
             ELSE IF tool \in ALWAYS_ALLOWED_TOOLS THEN Allow
             ELSE IF enf = "strict"
                  THEN IF tool \notin allowedTools THEN Deny(currentStep) ELSE Allow
             ELSE IF enf = "normal"
                  THEN IF tool \in destructiveTools /\ tool \notin allowedTools
                       THEN Deny(currentStep) ELSE Allow
             ELSE Allow

\* 'tool.execute.before' of the minimal plugin
toolExecuteBefore(active, tool) ==
    IF active = {} THEN Allow
    ELSE LET execution == CHOOSE x \in active : TRUE
             currentStep == execution.currentStep
         IN  IF currentStep = NullStep THEN Allow
             ELSE IF tool \in MINIMAL_ALWAYS_ALLOWED_TOOLS THEN Allow
             ELSE IF currentStep.type = "script" THEN Deny(currentStep)
             ELSE Allow

\* ------------------------------------------------------ the Context Injector
\* A text is kept as the sequence of its words.
\* String.toLowerCase on the words messages and triggers are made of
toLowerCase(word) ==
    CASE word = "DEPLOY" -> "deploy"
      [] word = "Deploy" -> "deploy"
      [] word = "Ship" -> "ship"
      [] OTHER -> word

\* String.includes between two words
includes(word, part) ==
    \/ word = part
    \/ <<word, part>> \in {<<"shipping", "ship">>, <<"redeploy", "deploy">>}

\* new RegExp(pattern, 'i').test(text) for a pattern that compiles: the
\* patterns used are plain words
RegExpTest(pattern, text) ==
    \E i \in 1..Len(text) : includes(toLowerCase(text[i]), toLowerCase(pattern))

Triggers(keywords, patterns) == [keywords |-> keywords, patterns |-> patterns]

\* the abilities in AbilitiesPlugin.abilities, in insertion order; triggers is
\* optional
LoadedAbilities ==
    << [name |-> "test", description |-> "Run the tests", triggers |-> {}],
       [name |-> "deploy", description |-> "Deploy application",
        triggers |-> {Triggers(<<"Deploy", "ship">>, <<>>)}],
       [name |-> "release", description |-> "Cut a release",
        triggers |-> {Triggers(<<>>, <<"(", "release", "DEPLOY">>)}] >>

\* AbilitiesPlugin.matchesTrigger; autoTrigger is FALSE when
\* config.abilities.auto_trigger === false
matchesTrigger(text, ability, autoTrigger) ==
    IF ability.triggers = {} THEN FALSE
    ELSE IF ~autoTrigger THEN FALSE
    ELSE LET triggers == CHOOSE t \in ability.triggers : TRUE
         IN  \/ \E k \in 1..Len(triggers.keywords) : \E i \in 1..Len(text) :
                   includes(toLowerCase(text[i]), toLowerCase(triggers.keywords[k]))
             \/ \E k \in 1..Len(triggers.patterns) :
                   /\ triggers.patterns[k] \notin InvalidPatterns
                   /\ RegExpTest(triggers.patterns[k], text)

\* mutant of detectAbility: the first loaded ability is returned, whether or
\* not the text matches one of its triggers
detectAbilityFirstLoaded(text, abilities, autoTrigger) ==
    IF abilities = <<>> THEN {} ELSE {abilities[1]}

\* AbilitiesPlugin.detectAbility: the first loaded ability the text matches,
\* as a set with at most one ability
detectAbility(text, abilities, autoTrigger) ==
    LET hits == {k \in 1..Len(abilities) : matchesTrigger(text, abilities[k], autoTrigger)}
    IN  IF hits = {} THEN {}
        ELSE {abilities[CHOOSE k \in hits : \A j \in hits : k <= j]}

\* a part of a chat message; synthetic is optional and absent counts as false
Part(type, synthetic, text) == [type |-> type, synthetic |-> synthetic, text |-> text]

\* the text of a part written by the user or by another plugin
Words(words) == [kind |-> "words", words |-> words]

\* the text of the suggestion block
Suggestion(ability) ==
    [kind |-> "suggestion", name |-> ability.name, description |-> ability.description]

\* AbilitiesPlugin.getStepInstructions
getStepInstructions(step) ==
    CASE step.type = "script" -> "Script is executing. Wait for completion."
      [] step.type = "agent" -> "Invoke agent"
      [] step.type = "skill" -> "Load and follow skill"
      [] step.type = "approval" -> "Request user approval"
      [] step.type = "workflow" -> "Execute nested ability"
      [] OTHER -> "Complete the current step."

\* AbilitiesPlugin.buildAbilityContextInjection: the lines of the status
\* block; notice is the line saying that other tools are blocked
buildAbilityContextInjection(execution, mode) ==
    [kind |-> "status",
     ability |-> execution.ability.name,
     progress |-> <<Len(execution.completedSteps), Len(execution.ability.steps)>>,
     currentStep |-> IF execution.currentStep = NullStep THEN {}
                     ELSE {[id |-> execution.currentStep.id,
                            type |-> execution.currentStep.type,
                            instructions |-> getStepInstructions(execution.currentStep)]},
     notice |-> (mode = "strict")]

\* buildAbilityContextInjection of the minimal plugin: no step type, and the
\* notice goes with the current step
buildMinimalContextInjection(execution) ==
    [kind |-> "status",
     ability |-> execution.ability.name,
     progress |-> <<Len(execution.completedSteps), Len(execution.ability.steps)>>,
     currentStep |-> IF execution.currentStep = NullStep THEN {}
                     ELSE {[id |-> execution.currentStep.id,
                            type |-> "",
                            instructions |-> "Script is executing. Wait for completion."]},
     notice |-> (execution.currentStep # NullStep)]

RECURSIVE userText(_)
\* the texts of the non-synthetic text parts, joined
userText(ps) ==
    IF ps = <<>> THEN <<>>
    ELSE IF Head(ps).type = "text" /\ ~Head(ps).synthetic
         THEN Head(ps).text.words \o userText(Tail(ps))
         ELSE userText(Tail(ps))

\* AbilitiesPlugin.handleChatMessage: output.parts when it returns
handleChatMessage(active, mode, autoTrigger, abilities, output) ==
    IF active # {} /\ (CHOOSE x \in active : TRUE).status = "running"
    THEN <<Part("text", TRUE,
                buildAbilityContextInjection(CHOOSE x \in active : TRUE, mode))>>
         \o output
    ELSE LET detected == detectAbility(userText(output), abilities, autoTrigger)
         IN  IF detected # {}
             THEN <<Part("text", TRUE, Suggestion(CHOOSE a \in detected : TRUE))>>
                  \o output
             ELSE output

\* 'chat.message' of the minimal plugin: output.parts when it returns
chatMessage(active, output) ==
    IF active # {} /\ (CHOOSE x \in active : TRUE).status = "running"
    THEN <<Part("text", FALSE,
                buildMinimalContextInjection(CHOOSE x \in active : TRUE))>>
         \o output
    ELSE output

\* the chat messages the host hands in: plain user texts, one with a part
\* another plugin injected, one with an attachment
InboundMessages ==
    { <<Part("text", FALSE, Words(<<"Hello", "world">>))>>,
      <<Part("text", FALSE, Words(<<"DEPLOY", "now">>))>>,
      <<Part("text", FALSE, Words(<<"release", "v1">>))>>,
      <<Part("text", TRUE, Words(<<"deploy">>)),
        Part("text", FALSE, Words(<<"Hello">>))>>,
      <<Part("file", FALSE, Words(<<"deploy">>)),
        Part("text", FALSE, Words(<<"keep">>)),
        Part("text", FALSE, Words(<<"shipping">>))>> }

\* ------------------------------------------------------------------- state
VARIABLES
    executions,       \* every AbilityExecution built so far, with the position
                      \* (pc) of the execute() call that owns it
    activeExecution,  \* ExecutionManager.activeExecution: 0 is null, else an
                      \* index into executions
    enforcement,      \* config.abilities.enforcement
    lastOp,           \* the last operation called and what it returned
    rSteps,           \* Resolver: the steps argument
    rResult,          \* Resolver: result
    rCompleted,       \* Resolver: completed
    rRemaining,       \* Resolver: remaining
    rPc,              \* Resolver: position
    vData,            \* Validator: the data argument of validateAbility
    vInputs,          \* Validator: the inputs argument of validateInputs
    vResult,          \* Validator: the ValidationResult returned
    vPc,              \* Validator: position
    auto_trigger,     \* config.abilities.auto_trigger is not false
    parts             \* output.parts of the last chat message handled

vars == <<executions, activeExecution, enforcement, lastOp,
          rSteps, rResult, rCompleted, rRemaining, rPc, vData, vInputs, vResult, vPc,
          auto_trigger, parts>>

chatVars == <<auto_trigger, parts>>
engineVars == <<executions, activeExecution, enforcement, lastOp, chatVars>>
resolverVars == <<rSteps, rResult, rCompleted, rRemaining, rPc>>
validatorVars == <<vData, vInputs, vResult, vPc>>

Op(op, ret, exec, tool, step, busy) ==
    [op |-> op, ret |-> ret, exec |-> exec, tool |-> tool, step |-> step, busy |-> busy]

\* the executions whose status is running
Running == {i \in 1..Len(executions) : executions[i].status = "running"}

\* the executions suspended on a step
InFlight == {i \in 1..Len(executions) : executions[i].pc = "step"}

\* ExecutionManager.getActive, as a set with at most one execution
getActive == IF activeExecution = 0 THEN {} ELSE {executions[activeExecution]}

\* what the status operation answers when there is no execution to report
NoStatus ==
    [active |-> FALSE, ability |-> "", currentStep |-> "", progress |-> <<>>,
     status |-> ""]

\* AbilitiesSDK.status without an execution id, on what getActive() returned;
\* progress "c/t" is kept as the pair <<c, t>>
status(active) ==
    IF active = {} THEN NoStatus
    ELSE LET execution == CHOOSE x \in active : TRUE
         IN  [active |-> execution.status = "running",
              ability |-> execution.ability.name,
              currentStep |-> execution.currentStep.id,
              progress |-> <<Len(execution.completedSteps),
                             Len(execution.ability.steps)>>,
              status |-> execution.status]

EngineInit ==
    /\ executions = <<>>
    /\ activeExecution = 0
    /\ enforcement \in Enforcements
    /\ lastOp = Op("init", "", 0, "", "", FALSE)
    /\ auto_trigger = TRUE
    /\ parts = <<>>

ResolverIdle ==
    /\ rSteps = <<>>
    /\ rResult = <<>>
    /\ rCompleted = {}
    /\ rRemaining = <<>>
    /\ rPc = "idle"

\* any well-formed definition, for the idle Validator
NoData == [description |-> "idle", steps |-> <<>>, patterns |-> <<>>]

NoResult == [valid |-> FALSE, errors |-> <<>>]

ValidatorIdle ==
    /\ vData = NoData
    /\ vInputs = NoInputs
    /\ vResult = NoResult
    /\ vPc = "idle"

Init == EngineInit /\ ResolverIdle /\ ValidatorIdle

\* ----------------------------------------------------------------- actions
\* ExecutionManager.execute up to the first suspension point
Execute(ability, inputs) ==
    /\ Len(executions) < MaxExecs
    /\ IF activeExecution # 0 /\ executions[activeExecution].status = "running"
       THEN /\ lastOp' = Op("execute", "Already executing ability", 0, "", "", Running # {})
            /\ UNCHANGED <<executions, activeExecution>>
       ELSE /\ executions' = Append(executions, executeAbility(ability, inputs))
            /\ lastOp' = Op("execute",
                            IF executeAbility(ability, inputs).pc = "thrown"
                            THEN "TypeError" ELSE "started",
                            Len(executions) + 1, "", "", Running # {})
            /\ UNCHANGED activeExecution
    /\ UNCHANGED <<enforcement, resolverVars, validatorVars, chatVars>>

\* the subprocess of the step in flight ends: the rest of the loop body, and
\* the loop up to the next suspension point or the return
StepDone(e, exitCode) ==
    /\ e \in InFlight
    /\ executions' = [executions EXCEPT
          ![e] = AfterStep(@, executeScriptStep(@.currentStep, @,
                                                Closed(<<>>, <<>>, {exitCode})))]
    /\ lastOp' = Op("step", "", 0, "", "", FALSE)
    /\ UNCHANGED <<activeExecution, enforcement, resolverVars, validatorVars, chatVars>>

\* the same for any way the subprocess can end, with the outcome put on
\* record in the result
StepEnds(e, outcome) ==
    /\ e \in InFlight
    /\ executions' = [executions EXCEPT
          ![e] = AfterStep(@, [executeScriptStep(@.currentStep, @, outcome)
                                  EXCEPT !.outcome = outcome])]
    /\ lastOp' = Op("step", "", 0, "", "", FALSE)
    /\ UNCHANGED <<activeExecution, enforcement, resolverVars, validatorVars, chatVars>>

\* mutant of ExecuteReturn: the slot is not cleared when the execution handed
\* back is finished
ExecuteReturnKeepsActive(e) ==
    /\ e \in 1..Len(executions)
    /\ executions[e].pc = "returning"
    /\ activeExecution' = e
    /\ executions' = [executions EXCEPT ![e].pc = "done"]
    /\ lastOp' = Op("return", "", 0, "", "", FALSE)
    /\ UNCHANGED <<enforcement, resolverVars, validatorVars, chatVars>>

\* ExecutionManager.execute after "await executeAbility"
ExecuteReturn(e) ==
    /\ e \in 1..Len(executions)
    /\ executions[e].pc = "returning"
    /\ activeExecution' = IF executions[e].status # "running" THEN 0 ELSE e
    /\ executions' = [executions EXCEPT ![e].pc = "done"]
    /\ lastOp' = Op("return", "", 0, "", "", FALSE)
    /\ UNCHANGED <<enforcement, resolverVars, validatorVars, chatVars>>

\* mutant of Cancel: the null check of the active slot is dropped and the
\* call reports success
CancelUnguarded ==
    /\ lastOp' = Op("cancel", "true", 0, "", "", Running # {})
    /\ UNCHANGED <<executions, activeExecution, enforcement, resolverVars, validatorVars, chatVars>>

\* ExecutionManager.cancel
Cancel ==
    /\ IF activeExecution = 0
       THEN /\ lastOp' = Op("cancel", "false", 0, "", "", Running # {})
            /\ UNCHANGED <<executions, activeExecution>>
       ELSE IF executions[activeExecution].status = "running"
       THEN /\ executions' = [executions EXCEPT
                  ![activeExecution].status = "failed",
                  ![activeExecution].error = CancelledError,
                  ![activeExecution].completedAt = TRUE]
            /\ activeExecution' = 0
            /\ lastOp' = Op("cancel", "true", activeExecution, "", "", Running # {})
       ELSE /\ lastOp' = Op("cancel", "false", 0, "", "", Running # {})
            /\ UNCHANGED <<executions, activeExecution>>
    /\ UNCHANGED <<enforcement, resolverVars, validatorVars, chatVars>>

\* mutant of cleanup: the slot is left as it is
cleanupKeepsActive(active) == active

\* ExecutionManager.cleanup: the new value of the active slot
cleanup(active) == 0

\* the session.deleted event of the minimal plugin: ExecutionManager.cleanup
SessionDeleted ==
    /\ activeExecution' = cleanup(activeExecution)
    /\ lastOp' = Op("session.deleted", "", 0, "", "", Running # {})
    /\ UNCHANGED <<executions, enforcement, resolverVars, validatorVars, chatVars>>

\* AbilitiesPlugin.handleEvent on a session.deleted event, whose info has a
\* session id or not: the manager has no onSessionDeleted, the call of it
\* throws a TypeError and the slot is not written
HandleEvent(hasId) ==
    /\ lastOp' = Op("handleEvent", IF hasId THEN "TypeError" ELSE "", 0, "", "",
                    Running # {})
    /\ UNCHANGED <<executions, activeExecution, enforcement, resolverVars,
                   validatorVars, chatVars>>

\* the host calls AbilitiesPlugin.handleToolExecuteBefore
ToolExecuteBefore(tool) ==
    /\ LET d == handleToolExecuteBefore(getActive, enforcement, tool)
       IN  lastOp' = Op("handleToolExecuteBefore",
                        IF d.denied THEN "blocked" ELSE "allowed",
                        0, tool, d.step, InFlight # {})
    /\ UNCHANGED <<executions, activeExecution, enforcement, resolverVars, validatorVars, chatVars>>

\* the host calls 'tool.execute.before' of the minimal plugin
MinimalToolExecuteBefore(tool) ==
    /\ LET d == toolExecuteBefore(getActive, tool)
       IN  lastOp' = Op("tool.execute.before",
                        IF d.denied THEN "blocked" ELSE "allowed",
                        0, tool, d.step, InFlight # {})
    /\ UNCHANGED <<executions, activeExecution, enforcement, resolverVars, validatorVars, chatVars>>

Next ==
    \/ \E ability \in Abilities : \E inputs \in InputChoices(ability) :
          Execute(ability, inputs)
    \/ \E e \in 1..MaxExecs : \E exitCode \in ExitCodes : StepDone(e, exitCode)
    \/ \E e \in 1..MaxExecs : ExecuteReturn(e)
    \/ Cancel
    \/ SessionDeleted
    \/ \E hasId \in BOOLEAN : HandleEvent(hasId)
    \/ \E tool \in Tools : ToolExecuteBefore(tool)
    \/ \E tool \in Tools : MinimalToolExecuteBefore(tool)

Spec == Init /\ [][Next]_vars

\* ------------------------------------------- the executor on the test files
\* executeAbility called on the definitions of the on_failure and when tests
ExecuteTest(ability, inputs) == Execute(ability, inputs)

ExecutorNext ==
    \/ \E ability \in TestAbilities : \E inputs \in InputChoices(ability) :
          ExecuteTest(ability, inputs)
    \/ \E e \in 1..MaxExecs : \E exitCode \in ExitCodes : StepDone(e, exitCode)
    \/ \E e \in 1..MaxExecs : ExecuteReturn(e)

ExecutorSpec == Init /\ [][ExecutorNext]_vars

\* ----------------------------------------- the executor on the script tests
\* executeAbility called on a definition of the script tests
RunScriptAbility(ability, inputs) ==
    /\ Len(executions) < MaxRuns
    /\ Execute(ability, inputs)

\* the subprocess of the step in flight ends in one of the ways it can
ScriptEnds(e) ==
    /\ e \in InFlight
    /\ \E outcome \in Outcomes(interpolateVariables(
                          CHOOSE r \in executions[e].currentStep.run : TRUE,
                          executions[e].inputs)) :
          StepEnds(e, outcome)

ScriptNext ==
    \/ \E ability \in ScriptAbilities : \E inputs \in ScriptInputChoices(ability) :
          RunScriptAbility(ability, inputs)
    \/ \E e \in 1..MaxExecs : ScriptEnds(e)
    \/ \E e \in 1..MaxExecs : ExecuteReturn(e)

ScriptSpec == Init /\ [][ScriptNext]_vars

\* ------------------------------------------------ the Resolver on its own
NeedSets(n) ==
    {ns \in SUBSET ({StepIds[k] : k \in 1..n} \cup {MissingId}) : Cardinality(ns) <= MaxNeeds}

\* a definition of n steps with unique ids: step k needs needs[k]
StepGraph(n, needs) == [k \in 1..n |-> Step(StepIds[k], needs[k], {})]

\* the Resolver is handed any definition of at most MaxSteps steps
ResolverInit ==
    /\ EngineInit
    /\ enforcement = "strict"
    /\ \E n \in 1..MaxSteps : \E needs \in [1..n -> NeedSets(n)] :
          rSteps = StepGraph(n, needs)
    /\ rResult = <<>>
    /\ rCompleted = {}
    /\ rRemaining = rSteps
    /\ rPc = "loop"
    /\ ValidatorIdle

\* one iteration of the while loop of buildExecutionOrder
ResolveIter ==
    /\ rPc = "loop"
    /\ Len(rRemaining) > 0
    /\ FindNext(rRemaining, rCompleted) # 0
    /\ LET next == FindNext(rRemaining, rCompleted)
       IN  /\ rResult' = Append(rResult, rRemaining[next])
           /\ rCompleted' = rCompleted \cup {rRemaining[next].id}
           /\ rRemaining' = Splice(rRemaining, next)
    /\ UNCHANGED <<rSteps, rPc, engineVars, validatorVars>>

\* the loop condition fails: return result
ResolveDone ==
    /\ rPc = "loop"
    /\ Len(rRemaining) = 0
    /\ rPc' = "done"
    /\ UNCHANGED <<rSteps, rResult, rCompleted, rRemaining, engineVars, validatorVars>>

\* mutant of ResolveAbort: no break, the loop goes round again
ResolveAbortSpins ==
    /\ rPc = "loop"
    /\ Len(rRemaining) > 0
    /\ FindNext(rRemaining, rCompleted) = 0
    /\ rPc' = "loop"
    /\ UNCHANGED <<rSteps, rResult, rCompleted, rRemaining, engineVars, validatorVars>>

\* find returned undefined: break, return result
ResolveAbort ==
    /\ rPc = "loop"
    /\ Len(rRemaining) > 0
    /\ FindNext(rRemaining, rCompleted) = 0
    /\ rPc' = "aborted"
    /\ UNCHANGED <<rSteps, rResult, rCompleted, rRemaining, engineVars, validatorVars>>

ResolverNext == ResolveIter \/ ResolveDone \/ ResolveAbort

ResolverSpec == ResolverInit /\ [][ResolverNext]_vars

\* buildExecutionOrder is synchronous: once called, its loop keeps going
ResolverFairSpec == ResolverSpec /\ WF_vars(ResolverNext)

\* ----------------------------------------------- the Validator on its own
GraphNeeds(n) ==
    {ns \in SUBSET {StepIds[k] : k \in 1..n} : Cardinality(ns) <= MaxNeeds}

\* n steps, step k needing needs[k]; with dup the last step repeats the id
\* of the first, with missing the first step also needs an id no step has
DefSteps(n, needs, dup, missing) ==
    [k \in 1..n |->
        Step(IF dup /\ k = n /\ n > 1 THEN StepIds[1] ELSE StepIds[k],
             IF missing /\ k = 1 THEN needs[k] \cup {MissingId} ELSE needs[k],
             {})]

Descriptions == {"", "Deploy"}

TriggerPatterns == {<<>>, <<"deploy.*", "(">>}

\* validateAbility is handed any definition of at most MaxSteps steps
ValidatorInit ==
    /\ EngineInit
    /\ enforcement = "strict"
    /\ ResolverIdle
    /\ \E n \in 0..MaxSteps : \E needs \in [1..n -> GraphNeeds(n)] :
       \E dup \in BOOLEAN : \E missing \in BOOLEAN :
       \E description \in Descriptions : \E patterns \in TriggerPatterns :
          vData = [description |-> description,
                   steps |-> DefSteps(n, needs, dup, missing),
                   patterns |-> patterns]
    /\ vInputs = NoInputs
    /\ vResult = NoResult
    /\ vPc = "start"

\* validateAbility(data)
Validate ==
    /\ vPc = "start"
    /\ vResult' = validateAbility(vData)
    /\ vPc' = "done"
    /\ UNCHANGED <<vData, vInputs, engineVars, resolverVars>>

ValidatorNext == Validate

ValidatorSpec == ValidatorInit /\ [][ValidatorNext]_vars

\* ------------------------------------------- validateInputs on its own
DeclaredNames == <<"name", "env">>

InputTypes == {"string", "number"}

Defaults == {Undef, StrWorld}

SuppliedChoices == {Undef, StrWorld, Num42}

\* validateInputs is handed any declaration of the two inputs and any values
InputsInit ==
    /\ EngineInit
    /\ enforcement = "strict"
    /\ ResolverIdle
    /\ \E type \in [1..2 -> InputTypes] : \E required \in [1..2 -> BOOLEAN] :
       \E default \in [1..2 -> Defaults] :
          vData = [name |-> "deploy",
                   inputs |-> [k \in 1..2 |->
                      InputDefinition(DeclaredNames[k], type[k], required[k], default[k])]]
    /\ vInputs \in [Range(DeclaredNames) -> SuppliedChoices]
    /\ vResult = NoResult
    /\ vPc = "start"

\* validateInputs(ability, inputs)
ValidateInputs ==
    /\ vPc = "start"
    /\ LET errors == validateInputs(vData, vInputs)
       IN  vResult' = [valid |-> Len(errors) = 0, errors |-> errors]
    /\ vPc' = "done"
    /\ UNCHANGED <<vData, vInputs, engineVars, resolverVars>>

InputsNext == ValidateInputs

InputsSpec == InputsInit /\ [][InputsNext]_vars

\* --------------------------------------------- the engine and the injector
\* ExecutionManager.execute, at most MaxRuns times
ChatExecute(ability, inputs) ==
    /\ Len(executions) < MaxRuns
    /\ Execute(ability, inputs)

\* mutant of HandleChatMessage: an ability whose trigger the message matches
\* is started at once
HandleChatMessageAutoRun(output) ==
    /\ parts' = handleChatMessage(getActive, enforcement, auto_trigger,
                                  LoadedAbilities, output)
    /\ lastOp' = Op("handleChatMessage", "", 0, "", "", Running # {})
    /\ executions' =
          IF parts' # output /\ Len(executions) < MaxExecs
          THEN Append(executions,
                      executeAbility(CHOOSE a \in Abilities : a.name = "chain", NoInputs))
          ELSE executions
    /\ UNCHANGED <<activeExecution, enforcement, auto_trigger,
                   resolverVars, validatorVars>>

\* the host calls AbilitiesPlugin.handleChatMessage
HandleChatMessage(output) ==
    /\ parts' = handleChatMessage(getActive, enforcement, auto_trigger,
                                  LoadedAbilities, output)
    /\ lastOp' = Op("handleChatMessage", "", 0, "", "", Running # {})
    /\ UNCHANGED <<executions, activeExecution, enforcement, auto_trigger,
                   resolverVars, validatorVars>>

\* the host calls 'chat.message' of the minimal plugin
ChatMessage(output) ==
    /\ parts' = chatMessage(getActive, output)
    /\ lastOp' = Op("chat.message", "", 0, "", "", Running # {})
    /\ UNCHANGED <<executions, activeExecution, enforcement, auto_trigger,
                   resolverVars, validatorVars>>

\* the plugin is initialized with any configuration
ChatInit ==
    /\ executions = <<>>
    /\ activeExecution = 0
    /\ enforcement \in Enforcements
    /\ lastOp = Op("init", "", 0, "", "", FALSE)
    /\ auto_trigger \in BOOLEAN
    /\ parts = <<>>
    /\ ResolverIdle
    /\ ValidatorIdle

ChatNext ==
    \/ \E ability \in Abilities : \E inputs \in InputChoices(ability) :
          ChatExecute(ability, inputs)
    \/ \E e \in 1..MaxExecs : \E exitCode \in ExitCodes : StepDone(e, exitCode)
    \/ \E e \in 1..MaxExecs : ExecuteReturn(e)
    \/ \E output \in InboundMessages : HandleChatMessage(output)
    \/ \E output \in InboundMessages : ChatMessage(output)
    \/ \E tool \in Tools : ToolExecuteBefore(tool)
    \/ \E tool \in Tools : MinimalToolExecuteBefore(tool)

ChatSpec == ChatInit /\ [][ChatNext]_vars

\* ------------------------------------------------------ graph vocabulary
NeedsOf(steps, ids) ==
    UNION {steps[k].needs : k \in {j \in 1..Len(steps) : steps[j].id \in ids}}

RECURSIVE Closure(_, _)
Closure(steps, ids) ==
    LET more == ids \cup NeedsOf(steps, ids)
    IN  IF more = ids THEN ids ELSE Closure(steps, more)

\* every id the step called id needs, directly or through other steps
DepsOf(steps, id) == Closure(steps, NeedsOf(steps, {id}))

Acyclic(steps) == \A k \in 1..Len(steps) : steps[k].id \notin DepsOf(steps, steps[k].id)

NeedsExist(steps) == \A k \in 1..Len(steps) : steps[k].needs \subseteq Range(Ids(steps))

UniqueIds(steps) ==
    \A j, k \in 1..Len(steps) : steps[j].id = steps[k].id => j = k

Independent(steps, j, k) ==
    /\ steps[j].id \notin DepsOf(steps, steps[k].id)
    /\ steps[k].id \notin DepsOf(steps, steps[j].id)

\* where the step called id stands in an order (0: not placed)
Pos(order, id) ==
    LET at == {k \in 1..Len(order) : order[k].id = id}
    IN  IF at = {} THEN 0 ELSE CHOOSE k \in at : \A j \in at : k <= j

TerminalStepStatus == {"completed", "failed", "skipped"}

ResultIds(results) == [k \in 1..Len(results) |-> results[k].stepId]

\* the step types of ALLOWED_TOOLS_BY_STEP_TYPE
StepTypes == {"script", "agent", "skill", "approval", "workflow"}

\* every tool name the gates mention, and the tools the host calls
ToolNames ==
    Tools \cup ALWAYS_ALLOWED_TOOLS \cup destructiveTools
          \cup UNION {ALLOWED_TOOLS_BY_STEP_TYPE(t) : t \in StepTypes}


\* the step of a definition that a recorded result belongs to
StepOf(ability, id) ==
    ability.steps[CHOOSE k \in 1..Len(ability.steps) : ability.steps[k].id = id]

\* a when condition holds when it is absent or the input equals the literal
WhenHolds(step, inputs) ==
    \A w \in step.when :
        inputs[w.input].t = "string" /\ inputs[w.input].v = w.equals

\* a recorded failure that the stop policy makes fatal
StopFailure(ability, result) ==
    /\ result.status = "failed"
    /\ StepOf(ability, result.stepId).on_failure # {"continue"}

\* two declared inputs and every way to supply them
TwoInputs ==
    [name |-> "deploy",
     inputs |-> << InputDefinition("name", "string", TRUE, Undef),
                   InputDefinition("env", "number", FALSE, Undef) >>]

SuppliedValues == [{"name", "env"} -> {Undef, StrWorld, Num42}]

\* a supplied value breaks the declaration of its input: it is required and
\* absent with no default, or present with another type
Offending(definition, value) ==
    \/ definition.required /\ value = Undef /\ definition.default = Undef
    \/ value # Undef /\ value.t # definition.type

\* the value an input has in a run: the supplied one, else the declared
\* default, else none
ResolvedValue(ability, supplied, n) ==
    LET ds == {k \in 1..Len(ability.inputs) : ability.inputs[k].name = n}
    IN  IF n \in DOMAIN supplied /\ supplied[n] # Undef THEN supplied[n]
        ELSE IF ds # {} THEN ability.inputs[CHOOSE k \in ds : TRUE].default
        ELSE Undef

\* the command text of a script step as declared
RunOf(ability, id) == CHOOSE r \in StepOf(ability, id).run : TRUE

\* what getActive() would return were the execution x in the active slot
\* with a current step of type t
Held(x, t) ==
    IF x.currentStep = NullStep THEN {x}
    ELSE {[x EXCEPT !.currentStep.type = t]}

\* the positions in a message of the blocks of one kind
Blocks(ps, kind) == {i \in 1..Len(ps) : ps[i].text.kind = kind}

\* a message without the blocks the injector writes
InboundOf(ps) == SelectSeq(ps, LAMBDA p : p.text.kind = "words")

\* the loaded abilities with a trigger the user's text of a message matches
Triggered(ps) ==
    {LoadedAbilities[k].name : k \in
        {j \in 1..Len(LoadedAbilities) :
            matchesTrigger(userText(InboundOf(ps)), LoadedAbilities[j], auto_trigger)}}

\* the number of finished executions the history is to keep
MAX_STORED_EXECUTIONS == 50

\* the executions the manager holds a reference to: its one field
Retained == {e \in 1..Len(executions) : activeExecution = e}

\* the error of a step whose capability the host did not inject
NotAvailableError ==
    [msg |-> "not available", actual |-> 0, expected |-> 0, codes |-> <<>>]

\* the data of a definition as validateAbility reads it
DataOf(ability) ==
    [description |-> ability.name, steps |-> ability.steps, patterns |-> <<>>]

\* ------------------------------------------------------------------ claims

\* C1: a start made while another execution has status running fails with the
\* "already executing" error and creates no execution.
C1_StartWhileRunningRejected ==
    (lastOp.op = "execute" /\ lastOp.busy) =>
        (lastOp.ret = "Already executing ability" /\ lastOp.exec = 0)

\* C2: at most one execution has status running at any time.
C2_AtMostOneRunning == Cardinality(Running) <= 1

\* C3: under strict enforcement, while a script step is in flight, a call of a
\* tool outside the always-allowed list is denied with an error naming the
\* tool and the id of the step in flight.
C3_StrictScriptStepBlocksTools ==
    (/\ lastOp.op \in {"handleToolExecuteBefore", "tool.execute.before"}
     /\ enforcement = "strict"
     /\ lastOp.busy
     /\ lastOp.tool \notin ALWAYS_ALLOWED_TOOLS) =>
        (/\ lastOp.ret = "blocked"
         /\ \E e \in InFlight : executions[e].currentStep.id = lastOp.step)

\* C4: the steps of an execution are started one at a time in the Resolver's
\* order: the steps started so far are a prefix of the Resolver's order, a
\* step is started only when every earlier one has its result recorded, and
\* every step a started step needs has a terminal result recorded before it.
C4_StepsOneAtATimeInResolverOrder ==
    \A e \in 1..Len(executions) :
        LET x == executions[e]
            order == buildExecutionOrder(x.ability.steps)
        IN  /\ Len(x.started) <= Len(order)
            /\ x.started = SubSeq(Ids(order), 1, Len(x.started))
            /\ Len(x.started) = Len(x.completedSteps) + (IF x.pc = "step" THEN 1 ELSE 0)
            /\ ResultIds(x.completedSteps) = SubSeq(x.started, 1, Len(x.completedSteps))
            /\ \A k \in 1..Len(x.started) :
                  \A dep \in order[k].needs :
                      \E j \in 1..(k - 1) :
                          /\ x.completedSteps[j].stepId = dep
                          /\ x.completedSteps[j].status \in TerminalStepStatus

\* C4 witness: the chain declared as c, a, b has its last step c in flight
\* after a and b.
C4_Witness ==
    \E e \in 1..Len(executions) :
        /\ executions[e].pc = "step"
        /\ executions[e].started = <<"a", "b", "c">>
        /\ Ids(executions[e].ability.steps) = <<"c", "a", "b">>

\* C5: a failed step result ends the execution: status failed, error the
\* step's error, the failed result is the last one recorded, the results are
\* those of the steps up to it in the order, and no later step was started.
C5_FailedStepStopsExecution ==
    \A e \in 1..Len(executions) :
        LET x == executions[e]
            order == Ids(buildExecutionOrder(x.ability.steps))
        IN  \A k \in 1..Len(x.completedSteps) :
                x.completedSteps[k].status = "failed" =>
                    /\ x.status = "failed"
                    /\ x.error = x.completedSteps[k].error
                    /\ x.error.msg = "Exit code"
                    /\ x.completedAt
                    /\ k = Len(x.completedSteps)
                    /\ ResultIds(x.completedSteps) = SubSeq(order, 1, k)
                    /\ x.started = SubSeq(order, 1, k)
                    /\ x.pc # "step"

\* C5 witness (Scenario A): the first step a of the chain failed, b and c
\* were never started.
C5_Witness ==
    \E e \in 1..Len(executions) :
        /\ executions[e].status = "failed"
        /\ executions[e].pc = "done"
        /\ Len(executions[e].orderedSteps) = 3
        /\ ResultIds(executions[e].completedSteps) = <<"a">>
        /\ executions[e].completedSteps[1].status = "failed"
        /\ executions[e].started = <<"a">>

\* C6: for an acyclic definition with unique ids whose needs all exist, the
\* Resolver returns a permutation of the steps with every step after each
\* step it needs.
C6_ResolverOrderRespectsNeeds ==
    (/\ rPc \in {"done", "aborted"}
     /\ UniqueIds(rSteps) /\ NeedsExist(rSteps) /\ Acyclic(rSteps)) =>
        (/\ Len(rResult) = Len(rSteps)
         /\ Range(rResult) = Range(rSteps)
         /\ \A k \in 1..Len(rResult) :
               \A dep \in rResult[k].needs :
                   \E j \in 1..(k - 1) : rResult[j].id = dep
         /\ buildExecutionOrder(rSteps) = rResult)

\* C6 witness: a resolved acyclic definition whose first declared step needs
\* a later one.
C6_Witness ==
    /\ rPc = "done"
    /\ Len(rSteps) = 3
    /\ Acyclic(rSteps) /\ NeedsExist(rSteps)
    /\ rSteps[1].needs = {"c"}
    /\ rSteps[3].needs = {"b"}
    /\ Ids(rResult) = <<"b", "c", "a">>

\* C7 as stated: two steps with no dependency relation in either direction
\* are placed in declaration order.
C7_IndependentStepsInDeclarationOrder ==
    (/\ rPc = "done"
     /\ UniqueIds(rSteps) /\ NeedsExist(rSteps) /\ Acyclic(rSteps)) =>
        \A j, k \in 1..Len(rSteps) :
            (j < k /\ Independent(rSteps, j, k)) =>
                Pos(rResult, rSteps[j].id) < Pos(rResult, rSteps[k].id)

\* C7 amended: two steps with no dependency relation in either direction are
\* placed in declaration order unless the earlier declared one still has an
\* unplaced need when the later declared one is placed.
C7_DeclarationOrderAmongEligible ==
    rPc \in {"done", "aborted"} =>
        \A j, k \in 1..Len(rSteps) :
            LET pj == Pos(rResult, rSteps[j].id)
                pk == Pos(rResult, rSteps[k].id)
            IN  (j < k /\ Independent(rSteps, j, k) /\ pj > 0 /\ pk > 0 /\ pk < pj) =>
                    \E dep \in rSteps[j].needs : Pos(rResult, dep) > pk

\* C7 witness: b and c are independent, neither waits for anything that is
\* not placed, and they come out in declaration order after a.
C7_Witness ==
    /\ rPc = "done"
    /\ Len(rSteps) = 3
    /\ rSteps[1].needs = {}
    /\ rSteps[2].needs = {"a"}
    /\ rSteps[3].needs = {"a"}
    /\ Independent(rSteps, 2, 3)
    /\ Ids(rResult) = <<"a", "b", "c">>

\* C8: no step of a definition whose needs graph has a cycle or names a
\* missing step is started, and its execution never has status completed.
C8_InvalidDefinitionNeverExecuted ==
    \A e \in 1..Len(executions) :
        LET x == executions[e]
        IN  (~Acyclic(x.ability.steps) \/ ~NeedsExist(x.ability.steps)) =>
                (x.started = <<>> /\ x.status # "completed")

\* C9: when validateInputs reports an error for the supplied values the
\* execution is failed with the "Input validation failed" error, has no step
\* result and no step of it was started.
C9_InputErrorsFailBeforeAnyStep ==
    \A e \in 1..Len(executions) :
        LET x == executions[e]
        IN  Len(validateInputs(x.ability, x.supplied)) > 0 =>
                /\ x.status = "failed"
                /\ x.error.msg = "Input validation failed"
                /\ x.completedAt
                /\ x.completedSteps = <<>>
                /\ x.started = <<>>
                /\ x.currentStep = NullStep
                /\ x.pc # "step"

\* C9 witness (Scenario D): greet was run without its required input and the
\* call has returned.
C9_Witness ==
    \E e \in 1..Len(executions) :
        /\ executions[e].ability.name = "greet"
        /\ executions[e].supplied = NoInputs
        /\ executions[e].error.codes = <<"MISSING_INPUT">>
        /\ executions[e].pc = "done"

\* C10: cancel() called while an execution is running returns true, sets
\* that execution's status to cancelled and its completedAt, and leaves the
\* active slot empty.
C10_CancelWhileRunning ==
    (lastOp.op = "cancel" /\ lastOp.busy) =>
        /\ lastOp.ret = "true"
        /\ lastOp.exec # 0
        /\ executions[lastOp.exec].status = "cancelled"
        /\ executions[lastOp.exec].completedAt
        /\ activeExecution = 0

\* C11: cancel() called when no execution is running (none was started, or
\* every one has finished) returns false and leaves the executions, the active
\* slot and the configuration as they were.
C11_CancelWhenIdleReturnsFalse ==
    [][(lastOp'.op = "cancel" /\ ~lastOp'.busy) =>
          (/\ lastOp'.ret = "false"
           /\ lastOp'.exec = 0
           /\ UNCHANGED <<executions, activeExecution, enforcement>>)]_vars

\* C11 witness: cancel() returned false after an execution had finished and
\* its execute() call had returned.
C11_Witness ==
    /\ lastOp.op = "cancel"
    /\ ~lastOp.busy
    /\ lastOp.ret = "false"
    /\ Len(executions) > 0
    /\ \A e \in 1..Len(executions) : executions[e].pc = "done"

C13_NoActiveExecutionAllowsEveryTool ==
    /\ \A enf \in Enforcements : \A tool \in ToolNames :
          /\ ~handleToolExecuteBefore({}, enf, tool).denied
          /\ ~toolExecuteBefore({}, tool).denied
    /\ (/\ lastOp.op \in {"handleToolExecuteBefore", "tool.execute.before"}
        /\ ~lastOp.busy) => lastOp.ret = "allowed"

\* C13 witness: under strict enforcement bash was let through while nothing
\* was running.
C13_Witness ==
    /\ lastOp.op = "handleToolExecuteBefore"
    /\ lastOp.tool = "bash"
    /\ enforcement = "strict"
    /\ ~lastOp.busy
    /\ activeExecution = 0
    /\ lastOp.ret = "allowed"

\* C14: a tool on the always-allowed list is never denied: not for any
\* execution there is, whatever the type of its current step, in any
\* enforcement mode, and not on any call the host makes.
C14_AlwaysAllowedToolsNeverDenied ==
    /\ \A e \in 1..Len(executions) : \A t \in StepTypes :
          /\ \A enf \in Enforcements : \A tool \in ALWAYS_ALLOWED_TOOLS :
                ~handleToolExecuteBefore(Held(executions[e], t), enf, tool).denied
          /\ \A tool \in MINIMAL_ALWAYS_ALLOWED_TOOLS :
                ~toolExecuteBefore(Held(executions[e], t), tool).denied
    /\ (lastOp.op = "handleToolExecuteBefore" /\ lastOp.tool \in ALWAYS_ALLOWED_TOOLS)
          => lastOp.ret = "allowed"
    /\ (lastOp.op = "tool.execute.before" /\ lastOp.tool \in MINIMAL_ALWAYS_ALLOWED_TOOLS)
          => lastOp.ret = "allowed"

\* C14 witness: under strict enforcement read was let through while a script
\* step was in flight.
C14_Witness ==
    /\ lastOp.op = "handleToolExecuteBefore"
    /\ lastOp.tool = "read"
    /\ enforcement = "strict"
    /\ lastOp.busy
    /\ \E e \in InFlight : executions[e].currentStep.type = "script"
    /\ lastOp.ret = "allowed"

\* C15: in loose mode the gate denies no tool: not for any execution there
\* is, whatever the type of its current step, and not on any call the host
\* makes.
C15_LooseModeNeverDenies ==
    /\ \A e \in 1..Len(executions) : \A t \in StepTypes : \A tool \in ToolNames :
          ~handleToolExecuteBefore(Held(executions[e], t), "loose", tool).denied
    /\ (lastOp.op = "handleToolExecuteBefore" /\ enforcement = "loose")
          => lastOp.ret = "allowed"

\* C15 witness: in loose mode bash was let through while a script step was in
\* flight.
C15_Witness ==
    /\ lastOp.op = "handleToolExecuteBefore"
    /\ lastOp.tool = "bash"
    /\ enforcement = "loose"
    /\ lastOp.busy
    /\ \E e \in InFlight : executions[e].currentStep.type = "script"
    /\ lastOp.ret = "allowed"

\* C16: in normal mode, while a step is in flight, a tool is denied exactly
\* when it is destructive, outside the permitted set of the step's type and
\* not always-allowed.
C16_NormalModeDeniesDestructiveOnly ==
    (/\ lastOp.op = "handleToolExecuteBefore"
     /\ enforcement = "normal"
     /\ lastOp.busy) =>
        \A e \in InFlight :
            (lastOp.ret = "blocked") <=>
                (/\ lastOp.tool \in destructiveTools
                 /\ lastOp.tool \notin ALLOWED_TOOLS_BY_STEP_TYPE(executions[e].currentStep.type)
                 /\ lastOp.tool \notin ALWAYS_ALLOWED_TOOLS)

\* C17: a failed step that declares on_failure: continue does not end the
\* run: the next step in the order is started, and when no stop-policy step
\* has failed the finished execution has a result for every step and status
\* completed.
C17_ContinueOnFailureProceeds ==
    \A e \in 1..Len(executions) :
        LET x == executions[e]
        IN  \A k \in 1..Len(x.completedSteps) :
                (/\ x.completedSteps[k].status = "failed"
                 /\ StepOf(x.ability, x.completedSteps[k].stepId).on_failure = {"continue"}) =>
                    /\ k < Len(x.orderedSteps) => Len(x.started) > k
                    /\ (/\ x.pc \in {"returning", "done"}
                        /\ \A j \in 1..Len(x.completedSteps) :
                              ~StopFailure(x.ability, x.completedSteps[j])) =>
                            /\ x.status = "completed"
                            /\ Len(x.completedSteps) = Len(x.orderedSteps)

\* C18: a step whose when condition is false under the inputs of the run is
\* never started (its command is not run), its recorded result is skipped,
\* and the run goes on to the steps after it.
C18_FalseWhenSkipsStep ==
    \A e \in 1..Len(executions) :
        LET x == executions[e]
        IN  /\ \A k \in 1..Len(x.started) :
                  WhenHolds(StepOf(x.ability, x.started[k]), x.inputs)
            /\ \A k \in 1..Len(x.completedSteps) :
                  ~WhenHolds(StepOf(x.ability, x.completedSteps[k].stepId), x.inputs) =>
                      x.completedSteps[k].status = "skipped"

\* C19: for a schema-valid definition with unique step ids, validateAbility
\* returns valid = false with a CIRCULAR_DEPENDENCY error exactly when the
\* needs graph has a cycle (a step that needs itself included), and the cycle
\* reported is a path of the graph from a step back to itself.
C19_CycleReportedExactlyWhenCyclic ==
    (/\ vPc = "done"
     /\ Len(SchemaErrors(vData)) = 0
     /\ UniqueIds(vData.steps)) =>
        LET cycle == detectCircularDependencies(vData.steps)
        IN  /\ ("CIRCULAR_DEPENDENCY" \in Range(vResult.errors)) <=> ~Acyclic(vData.steps)
            /\ ~Acyclic(vData.steps) =>
                  /\ ~vResult.valid
                  /\ Len(cycle) >= 2
                  /\ cycle[1] = cycle[Len(cycle)]
                  /\ \A k \in 1..(Len(cycle) - 1) :
                        cycle[k + 1] \in NeedsOf(vData.steps, {cycle[k]})
            /\ Acyclic(vData.steps) => cycle = <<>>

\* C19 witness (Scenario B): a needs b and b needs a, and nothing else is
\* wrong with the definition.
C19_Witness ==
    /\ vPc = "done"
    /\ Len(SchemaErrors(vData)) = 0
    /\ Ids(vData.steps) = <<"a", "b">>
    /\ vData.steps[1].needs = {"b"}
    /\ vData.steps[2].needs = {"a"}
    /\ ~vResult.valid
    /\ vResult.errors = <<"CIRCULAR_DEPENDENCY">>

\* C20: one call reports every violation present: a validated definition
\* has a SCHEMA_ERROR when the schema is broken, a DUPLICATE_ID when a step
\* id repeats, a MISSING_DEPENDENCY when a needs entry names no step, a
\* CIRCULAR_DEPENDENCY when its (unique) steps form a cycle and an
\* INVALID_REGEX when a pattern does not compile; and validateInputs returns
\* at least one error for each offending input.
C20_EveryViolationReported ==
    /\ vPc = "done" =>
          LET codes == Range(vResult.errors)
          IN  /\ Len(SchemaErrors(vData)) > 0 => "SCHEMA_ERROR" \in codes
              /\ ~UniqueIds(vData.steps) => "DUPLICATE_ID" \in codes
              /\ ~NeedsExist(vData.steps) => "MISSING_DEPENDENCY" \in codes
              /\ (UniqueIds(vData.steps) /\ ~Acyclic(vData.steps)) =>
                    "CIRCULAR_DEPENDENCY" \in codes
              /\ Range(vData.patterns) \cap InvalidPatterns # {} =>
                    "INVALID_REGEX" \in codes
    /\ \A inputs \in SuppliedValues :
          Len(validateInputs(TwoInputs, inputs)) >=
              Cardinality({k \in 1..Len(TwoInputs.inputs) :
                  Offending(TwoInputs.inputs[k], inputs[TwoInputs.inputs[k].name])})

\* C21: every iteration of the Resolver appends the earliest-declared step
\* not yet placed all of whose needs are placed, and it stops only when no
\* unplaced step has all its needs placed; the output is fixed by the
\* declaration alone.
C21_ResolverAppendsEarliestEligible ==
    [][LET placed == Range(Ids(rResult))
           free == {k \in 1..Len(rSteps) :
                       rSteps[k].id \notin placed /\ rSteps[k].needs \subseteq placed}
       IN  /\ rResult' # rResult =>
                 /\ free # {}
                 /\ rResult' = Append(rResult,
                                      rSteps[CHOOSE k \in free : \A j \in free : k <= j])
           /\ rPc' # rPc => (free = {} /\ rResult' = rResult)]_vars

\* C21 witness: a needs b, b needs nothing, c needs a: the order is b, a, c.
C21_Witness ==
    /\ rPc = "done"
    /\ Len(rSteps) = 3
    /\ rSteps[1].needs = {"b"}
    /\ rSteps[2].needs = {}
    /\ rSteps[3].needs = {"a"}
    /\ Ids(rResult) = <<"b", "a", "c">>

\* C22: validateInputs reports MISSING_INPUT for a declared input exactly
\* when the input is required, no value is supplied and no default is
\* declared: the errors returned hold one MISSING_INPUT for each such input
\* and none for an optional input or for one that has a default.
C22_MissingInputExactlyWhenRequired ==
    vPc = "done" =>
        LET defs == vData.inputs
            missing == {k \in 1..Len(defs) :
                           /\ defs[k].required
                           /\ vInputs[defs[k].name] = Undef
                           /\ defs[k].default = Undef}
        IN  /\ Len(SelectSeq(vResult.errors, LAMBDA c : c = "MISSING_INPUT"))
                  = Cardinality(missing)
            /\ \A k \in 1..Len(defs) :
                  ("MISSING_INPUT" \in Range(InputErrorsOf(defs[k], vInputs[defs[k].name])))
                      <=> k \in missing
            /\ missing # {} => ~vResult.valid

\* C22 witness: name is required without default and absent, env is required
\* with a default and absent: one MISSING_INPUT.
C22_Witness ==
    /\ vPc = "done"
    /\ vInputs = [n \in Range(DeclaredNames) |-> Undef]
    /\ vData.inputs[1].required /\ vData.inputs[1].default = Undef
    /\ vData.inputs[2].required /\ vData.inputs[2].default = StrWorld
    /\ vResult.errors = <<"MISSING_INPUT">>

\* C23: in the command a step was run with, every {{inputs.NAME}} whose NAME
\* has a value among the supplied inputs and the declared defaults stands
\* replaced by the text of that value, and every other piece of the declared
\* text, placeholders without a value included, stands as declared.
C23_InputPlaceholdersReplaced ==
    \A e \in 1..Len(executions) :
        LET x == executions[e]
        IN  \A k \in 1..Len(x.completedSteps) :
                LET r == x.completedSteps[k]
                    run == RunOf(x.ability, r.stepId)
                IN  /\ Len(r.command) = Len(run)
                    /\ \A j \in 1..Len(run) :
                          LET value == ResolvedValue(x.ability, x.supplied, run[j].name)
                          IN  r.command[j] =
                                 IF run[j].kind = "inputs" /\ value # Undef
                                 THEN Lit(value.v)
                                 ELSE run[j]

\* C24: in the command a step was run with, no {{steps.STEPID.output}} of an
\* already completed step STEPID is left standing, and what the step then
\* echoes back holds the captured output of that step.
C24_StepOutputPlaceholdersReplaced ==
    \A e \in 1..Len(executions) :
        LET x == executions[e]
        IN  \A k \in 1..Len(x.completedSteps) :
                LET r == x.completedSteps[k]
                    run == RunOf(x.ability, r.stepId)
                IN  \A j \in 1..Len(run) : \A i \in 1..(k - 1) :
                        (/\ run[j] = StepRef(x.completedSteps[i].stepId)
                         /\ x.completedSteps[i].status = "completed") =>
                            /\ run[j] \notin Range(r.command)
                            /\ (r.outcome.event = "close" /\ run[1] = Lit("echo")) =>
                                  Range(x.completedSteps[i].output) \subseteq Range(r.output)

C26_SpawnErrorFailsStep ==
    \A e \in 1..Len(executions) :
        LET x == executions[e]
        IN  \A k \in 1..Len(x.completedSteps) :
                LET r == x.completedSteps[k]
                IN  (r.outcome.event = "error" \/ r.outcome.code = {127}) =>
                        /\ r.status = "failed"
                        /\ r.error # NoError

\* C27: executeAbility never throws and what it returns is terminal: no call
\* ends in an exception, and an execution handed back is not running and
\* has completedAt set.
C27_ExecuteAbilityNeverThrows ==
    \A e \in 1..Len(executions) :
        /\ executions[e].pc # "thrown"
        /\ executions[e].pc \in {"returning", "done"} =>
              /\ executions[e].status \in {"completed", "failed"}
              /\ executions[e].completedAt

\* C28: while a step of an execution is in flight, getActive() returns that
\* execution and the status operation reports it: status running, the id of
\* the step in flight, and progress = results recorded / steps declared.
C28_StatusReportsRunInFlight ==
    \A e \in InFlight :
        /\ getActive = {executions[e]}
        /\ status(getActive) =
              [active |-> TRUE,
               ability |-> executions[e].ability.name,
               currentStep |-> executions[e].currentStep.id,
               progress |-> <<Len(executions[e].completedSteps),
                              Len(executions[e].ability.steps)>>,
               status |-> "running"]

\* C29: a chat message handled while an execution is running gets exactly one
\* status block, at its head, naming the ability, the progress (results
\* recorded over steps declared) and the current step; the full plugin puts
\* the notice that other tools are blocked in it exactly when the mode is
\* strict; the message gets no trigger suggestion.
C29_RunningMessageGetsStatusBlock ==
    (lastOp.op \in {"handleChatMessage", "chat.message"} /\ Running # {}) =>
        /\ Blocks(parts, "status") = {1}
        /\ Blocks(parts, "suggestion") = {}
        /\ \E e \in Running :
              LET x == executions[e]
                  block == parts[1].text
              IN  /\ block.ability = x.ability.name
                  /\ block.progress = <<Len(x.completedSteps), Len(x.ability.steps)>>
                  /\ x.currentStep # NullStep =>
                        \E c \in block.currentStep : c.id = x.currentStep.id
                  /\ lastOp.op = "handleChatMessage" =>
                        (block.notice <=> enforcement = "strict")

\* C30: when no execution is running and the user's text of a message matches
\* a trigger of a loaded ability (automatic triggering not switched off),
\* handleChatMessage prepends one suggestion naming a matching ability and
\* does nothing else: the message is otherwise as it came, no execution is
\* created or changed, no step starts and the active slot stays empty.
C30_TriggerOnlySuggests ==
    [][(lastOp'.op = "handleChatMessage" /\ Running = {} /\ Triggered(parts') # {}) =>
          (/\ Blocks(parts', "suggestion") = {1}
           /\ Blocks(parts', "status") = {}
           /\ parts'[1].type = "text"
           /\ parts'[1].synthetic
           /\ parts'[1].text.name \in Triggered(parts')
           /\ Tail(parts') = InboundOf(parts')
           /\ UNCHANGED <<executions, activeExecution>>
           /\ activeExecution' = 0)]_vars

\* C30 witness: after a run has finished, a message matching only the pattern
\* of the third loaded ability carries the suggestion naming it.
C30_Witness ==
    /\ lastOp.op = "handleChatMessage"
    /\ Running = {}
    /\ Len(executions) >= 1
    /\ \A e \in 1..Len(executions) : executions[e].pc = "done"
    /\ activeExecution = 0
    /\ parts = <<Part("text", TRUE, Suggestion(LoadedAbilities[3])),
                 Part("text", FALSE, Words(<<"release", "v1">>))>>

\* C31: every execution that has finished and whose execute() call has
\* returned is held by the manager, to be looked up by its id, and the manager
\* holds at most MAX_STORED_EXECUTIONS executions.
C31_FinishedExecutionsRetained ==
    /\ \A e \in 1..Len(executions) : executions[e].pc = "done" => e \in Retained
    /\ Cardinality(Retained) <= MAX_STORED_EXECUTIONS

\* C32: once the engine has reached an agent, skill, approval or workflow
\* step (no capability is injected), the call has not ended in an exception,
\* the step has a result of status failed with the 'not available' error, and
\* the execution has status failed.
C32_DelegatingStepFailsNotAvailable ==
    \A e \in 1..Len(executions) :
        LET x == executions[e]
        IN  (x.currentStep # NullStep /\ x.currentStep.type # "script") =>
                /\ x.pc # "thrown"
                /\ x.status = "failed"
                /\ \E k \in 1..Len(x.completedSteps) :
                      /\ x.completedSteps[k].stepId = x.currentStep.id
                      /\ x.completedSteps[k].status = "failed"
                      /\ x.completedSteps[k].error = NotAvailableError

\* C33: when executions have finished and none is running, the active slot
\* is empty and getActive() returns none; a cancel() made then returns false
\* and changes nothing, and a start made then is accepted and creates a new
\* execution.
C33_FinishedExecutionFreesSlot ==
    [][/\ (Running' = {} /\ executions' # <<>>) =>
              (activeExecution' = 0 /\ getActive' = {})
       /\ (Running = {} /\ executions # <<>> /\ lastOp'.op = "cancel") =>
              (lastOp'.ret = "false" /\ UNCHANGED <<executions, activeExecution>>)
       /\ (Running = {} /\ executions # <<>> /\ lastOp'.op = "execute") =>
              (/\ lastOp'.ret = "started"
               /\ Len(executions') = Len(executions) + 1
               /\ lastOp'.exec = Len(executions'))]_vars

\* C33 witness: a start made after the first execution had completed and its
\* execute() call had returned is accepted as the second execution.
C33_Witness ==
    /\ Len(executions) = 2
    /\ executions[1].status = "completed"
    /\ executions[1].pc = "done"
    /\ activeExecution = 0
    /\ lastOp.op = "execute"
    /\ ~lastOp.busy
    /\ lastOp.ret = "started"
    /\ lastOp.exec = 2

\* C34: no step of the engine (a step ending, cancel, session teardown, a
\* later start or its return) changes the status, error, completedAt or
\* completedSteps of an execution whose status is no longer running.
C34_TerminalExecutionImmutable ==
    [][\A e \in 1..Len(executions) :
          executions[e].status # "running" =>
              /\ Len(executions') >= e
              /\ executions'[e].status = executions[e].status
              /\ executions'[e].error = executions[e].error
              /\ executions'[e].completedAt = executions[e].completedAt
              /\ executions'[e].completedSteps = executions[e].completedSteps]_vars

\* C34 witness: cancel() was called after the first execution had failed at a
\* step and a second one had been started; the first is as it ended.
C34_Witness ==
    /\ Len(executions) = 2
    /\ executions[1].status = "failed"
    /\ executions[1].error = ExitCodeError(1, 0)
    /\ executions[1].completedAt
    /\ Len(executions[1].completedSteps) = 1
    /\ executions[2].pc = "step"
    /\ lastOp.op = "cancel"

\* C35: a call of the Enforcement Gate or of the Context Injector, of either
\* plugin, made at any point of a run, leaves every execution (status and
\* step results included), the active slot and the configuration as they
\* were.
C35_GateAndInjectorChangeNothing ==
    [][(lastOp'.op \in {"handleToolExecuteBefore", "tool.execute.before",
                        "handleChatMessage", "chat.message"}) =>
          UNCHANGED <<executions, activeExecution, enforcement, auto_trigger>>]_vars

\* C35 witness: the gate was asked about bash under strict enforcement while
\* the second step of an execution was in flight.
C35_Witness ==
    /\ lastOp.op = "handleToolExecuteBefore"
    /\ lastOp.tool = "bash"
    /\ enforcement = "strict"
    /\ \E e \in InFlight : Len(executions[e].completedSteps) = 1

\* C36: under strict enforcement the gate lets a tool through exactly when it
\* is always-allowed or in the permitted set of the current step's type
\* (script: nothing; agent: the delegate tools; skill: the skill tools;
\* approval: status and cancel; workflow: ability.run and ability.status):
\* on every call made while a step is in flight, and for every execution
\* there is were it the active one with a current step of any type.
C36_StrictAllowsExactlyPermittedTools ==
    /\ (/\ lastOp.op = "handleToolExecuteBefore"
        /\ enforcement = "strict"
        /\ lastOp.busy) =>
           \A e \in InFlight :
               (lastOp.ret = "allowed") <=>
                   \/ lastOp.tool \in ALWAYS_ALLOWED_TOOLS
                   \/ lastOp.tool \in ALLOWED_TOOLS_BY_STEP_TYPE(executions[e].currentStep.type)
    /\ \A e \in InFlight : \A t \in StepTypes : \A tool \in ToolNames :
           (~handleToolExecuteBefore(Held(executions[e], t), "strict", tool).denied) <=>
               \/ tool \in ALWAYS_ALLOWED_TOOLS
               \/ tool \in (CASE t = "script" -> {}
                              [] t = "agent" -> {"task", "background_task", "call_omo_agent"}
                              [] t = "skill" -> {"skill", "slashcommand"}
                              [] t = "approval" -> {"ability.status", "ability.cancel"}
                              [] t = "workflow" -> {"ability.run", "ability.status"})

\* C37: after a session.deleted event, in either plugin, the active slot is
\* empty, getActive() returns none and both gates let every tool through,
\* also when an execution was running as the event arrived; cleanup() empties
\* the slot whichever execution it holds.
C37_SessionDeletedClearsActive ==
    /\ lastOp.op \in {"session.deleted", "handleEvent"} =>
          /\ activeExecution = 0
          /\ getActive = {}
          /\ \A tool \in ToolNames :
                /\ ~handleToolExecuteBefore(getActive, enforcement, tool).denied
                /\ ~toolExecuteBefore(getActive, tool).denied
    /\ \A active \in 0..Len(executions) : cleanup(active) = 0

\* C37 witness: session.deleted arrived while the second step of an
\* execution was in flight, and the slot is empty.
C37_Witness ==
    /\ lastOp.op = "session.deleted"
    /\ lastOp.busy
    /\ \E e \in InFlight : Len(executions[e].completedSteps) = 1
    /\ activeExecution = 0

\* C38: the Resolver returns on every definition, cyclic ones and ones with
\* needs that name no step included: each iteration places one more step, and
\* when steps remain of which none has all its needs placed it aborts and
\* returns the steps placed so far and no other.
C38_ResolverTerminates ==
    /\ [](/\ Len(rResult) + Len(rRemaining) = Len(rSteps)
          /\ Range(rResult) \cup Range(rRemaining) = Range(rSteps)
          /\ rPc = "aborted" =>
                /\ Len(rRemaining) > 0
                /\ \A k \in 1..Len(rRemaining) :
                      ~(rRemaining[k].needs \subseteq Range(Ids(rResult)))
                /\ buildExecutionOrder(rSteps) = rResult
          /\ rPc = "done" => rRemaining = <<>>)
    /\ <>(rPc \in {"done", "aborted"})

\* C38 witness: b and c need each other; the Resolver has aborted with a
\* alone placed.
C38_Witness ==
    /\ rPc = "aborted"
    /\ Len(rSteps) = 3
    /\ rSteps[2].needs = {"c"}
    /\ rSteps[3].needs = {"b"}
    /\ Ids(rResult) = <<"a">>
    /\ Ids(rRemaining) = <<"b", "c">>

\* C39: completedSteps only grows by appending: a step of the engine leaves
\* the results of an execution as they were or appends one; every step whose
\* run has ended has exactly one result, no stepId occurs twice, and the
\* results are in the order in which the steps were started.
C39_CompletedStepsAppendOnly ==
    /\ [](\A e \in 1..Len(executions) :
             LET x == executions[e]
                 ids == ResultIds(x.completedSteps)
             IN  /\ \A j, k \in 1..Len(ids) : ids[j] = ids[k] => j = k
                 /\ Len(x.started) = Len(ids) + (IF x.pc = "step" THEN 1 ELSE 0)
                 /\ ids = SubSeq(x.started, 1, Len(ids)))
    /\ [][\A e \in 1..Len(executions) :
             \/ executions'[e].completedSteps = executions[e].completedSteps
             \/ \E r \in {executions'[e].completedSteps[Len(executions'[e].completedSteps)]} :
                   executions'[e].completedSteps = Append(executions[e].completedSteps, r)]_vars

\* C40: at every point of a run (the inputs were accepted) the step ids with
\* a result and the step ids pending are disjoint and together are the ids
\* of the Resolver's order; and when the definition passes validateAbility, an
\* execution that has ended completed has exactly one result for each
\* declared step, no pending step and no current step.
C40_CompletedAndPendingPartitionOrder ==
    \A e \in 1..Len(executions) :
        LET x == executions[e]
            done == Range(ResultIds(x.completedSteps))
            pending == Range(Ids(x.pendingSteps))
        IN  /\ Len(validateInputs(x.ability, x.supplied)) = 0 =>
                  /\ done \cap pending = {}
                  /\ done \cup pending = Range(Ids(buildExecutionOrder(x.ability.steps)))
            /\ (validateAbility(DataOf(x.ability)).valid /\ x.status = "completed") =>
                  /\ Len(x.completedSteps) = Len(x.ability.steps)
                  /\ \A k \in 1..Len(x.ability.steps) :
                        Cardinality({j \in 1..Len(x.completedSteps) :
                            x.completedSteps[j].stepId = x.ability.steps[k].id}) = 1
                  /\ x.pendingSteps = <<>>
                  /\ x.currentStep = NullStep

\* C40 witness: the two steps of context-test, a valid definition, both have
\* their result; the execution is completed with nothing pending.
C40_Witness ==
    \E e \in 1..Len(executions) :
        /\ executions[e].ability.name = "context-test"
        /\ validateAbility(DataOf(executions[e].ability)).valid
        /\ executions[e].status = "completed"
        /\ ResultIds(executions[e].completedSteps) = <<"a", "b">>
        /\ executions[e].pendingSteps = <<>>
        /\ executions[e].pc = "done"

====
